---- MODULE Spec2Model ----
(***************************************************************************)
(* The suggestion engine of the chat application: the App component's      *)
(* state and handlers (handleSendMessage, processWithEngine,               *)
(* handleSuggestionClick, the engine toggle) and the GeminiService behind  *)
(* them (analyzeContext, executeSuggestion in its two builds: the          *)
(* googleSearch build and the function-tool build).                        *)
(*                                                                         *)
(* Texts are sequences of strings (characters or fragments), so that       *)
(* trim(), substring() and the `x || default` fallbacks are computed.      *)
(* A React event handler runs to its first await as one step, and the      *)
(* continuation after an await as one step: React applies the queued       *)
(* state updaters of one handler run in order and renders before the next  *)
(* event is delivered.                                                     *)
(***************************************************************************)
EXTENDS Integers, Sequences, FiniteSets, TLC

VARIABLES
    messages,      \* useState<Message[]>            (App, line 11)
    input,         \* useState('')                   (App, line 12)
    engineActive,  \* useState(true)                 (App, line 13)
    engineState,   \* useState<EngineState>          (App, lines 14-20)
    service,       \* which GeminiService build is linked in
    tasks,         \* handler invocations suspended at an await, in start order
    requests,      \* every generateContent request issued so far, in order
    executions,    \* every executeSuggestion call that has settled, in order
    sets,          \* suggestion sets surfaced so far / the sets selected from
    uuid           \* number of crypto.randomUUID() values drawn so far

vars == <<messages, input, engineActive, engineState, service, tasks,
          requests, executions, sets, uuid>>

----------------------------------------------------------------------------
(* Bounds of the model *)

\* accepted submissions (user messages) per run
MaxSubmits == 2

----------------------------------------------------------------------------
(* Texts *)

Min(a, b) == IF a < b THEN a ELSE b

\* String.prototype.trim on a text of one-character strings
RECURSIVE TrimStart(_)
TrimStart(s) == IF s # <<>> /\ Head(s) = " " THEN TrimStart(Tail(s)) ELSE s

RECURSIVE TrimEnd(_)
TrimEnd(s) ==
    IF s # <<>> /\ s[Len(s)] = " " THEN TrimEnd(SubSeq(s, 1, Len(s) - 1)) ELSE s

\* (mutant) a trim that removes nothing
TrimKeepsText(s) == s

Trim(s) == TrimEnd(TrimStart(s))

\* String.prototype.substring(0, n)
Substring0(s, n) == SubSeq(s, 1, Min(n, Len(s)))

\* r.f || d : an absent field and the empty text are both falsy
OrElse(r, f, d) == IF f \in DOMAIN r /\ r[f] # <<>> THEN r[f] ELSE d

Last(s) == s[Len(s)]

\* Array.prototype.slice(0, -1)
SliceButLast(s) == SubSeq(s, 1, Len(s) - 1)

RemoveAt(s, i) == SubSeq(s, 1, i - 1) \o SubSeq(s, i + 1, Len(s))

\* what the user can type into the input box
InputTexts == { <<>>, <<" ">>, <<" ", "h", "i">> }

----------------------------------------------------------------------------
(* types.ts *)

SuggestionTypes ==
    {"Clarify", "Expand", "Create", "Connect", "Challenge", "Crystallize"}

MkSuggestion(t) ==
    [type |-> t, title |-> "Title", description |-> "Description",
     reasoning |-> "Reasoning", confidence |-> 1]

\* (mutant) a standard reply of type Clarify
StandardReplyAsClarify ==
    [type |-> "Clarify", title |-> "Reply", description |-> "Standard reply",
     reasoning |-> "Engine off", confidence |-> 1, id |-> "std"]

\* the suggestion handleSendMessage synthesizes when the engine is off
StandardReply ==
    [type |-> "Expand", title |-> "Reply", description |-> "Standard reply",
     reasoning |-> "Engine off", confidence |-> 1, id |-> "std"]

LogEntry(id, message, type) == [id |-> id, message |-> message, type |-> type]

----------------------------------------------------------------------------
(* The provider, as seen through ai.models.generateContent *)

LongText == [i \in 1..52 |-> "c"]

\* Analysis payloads (the value JSON.parse returns). The cast to
\* AnalysisResult checks nothing, so the list length and the type strings
\* are whatever the provider sent.
FivePaths ==
    [patternsDetected |-> <<"Question", "Imperative">>,
     historyDepth |-> "shallow",
     contextContinuity |-> <<"n", "e", "w">>,
     dialecticalOpportunity |-> <<"o">>,
     suggestions |-> <<MkSuggestion("Clarify"), MkSuggestion("Expand"),
                       MkSuggestion("Create"), MkSuggestion("Connect"),
                       MkSuggestion("Challenge")>>]

ThreePaths ==
    [patternsDetected |-> <<"Continuation">>,
     historyDepth |-> "deep",
     contextContinuity |-> LongText,
     suggestions |-> <<MkSuggestion("Crystallize"), MkSuggestion("Crystallize"),
                       MkSuggestion("Summarize")>>]

AnalysisPayloads == {FivePaths, ThreePaths}

\* what generateContent can answer to the analysis request: a rejected
\* promise, a response without text, a text that is no JSON document, or a
\* JSON document
AnalysisResponses ==
    { [ok |-> FALSE, message |-> "fetch failed"],
      [ok |-> TRUE],
      [ok |-> TRUE, text |-> [json |-> FALSE]] }
    \cup { [ok |-> TRUE, text |-> [json |-> TRUE, value |-> p]] : p \in AnalysisPayloads }

\* grounding chunks: with uri and title, without title, without uri, without web
ChunkFull == [web |-> [uri |-> <<"u1">>, title |-> <<"T1">>]]
ChunkNoTitle == [web |-> [uri |-> <<"u2">>]]
ChunkNoUri == [web |-> [title |-> <<"T3">>]]
ChunkNoWeb == [retrievedContext |-> <<"r">>]
ChunkEmptyTitle == [web |-> [uri |-> <<"u5">>, title |-> <<>>]]
ChunkEmptyUri == [web |-> [uri |-> <<>>, title |-> <<"T6">>]]

\* what generateContent can answer to an execution request: a rejected
\* promise, a text, an empty text, a text with grounding chunks, a call of
\* the declared function, a call of another function
Rejected == [ok |-> FALSE, message |-> "fetch failed"]
Answer == [ok |-> TRUE, text |-> <<"Answer.">>]
EmptyAnswer == [ok |-> TRUE, text |-> <<>>]
Grounded == [ok |-> TRUE, text |-> <<"Answer.">>,
                 groundingChunks |-> <<ChunkNoUri, ChunkFull, ChunkNoWeb, ChunkNoTitle>>]
\* grounding chunks none of which has a uri, an empty list of chunks, chunks
\* with an empty title and an empty uri
GroundedNoUri == [ok |-> TRUE, text |-> <<"Answer.">>,
                  groundingChunks |-> <<ChunkNoUri, ChunkNoWeb>>]
GroundedEmpty == [ok |-> TRUE, text |-> <<"Answer.">>, groundingChunks |-> <<>>]
GroundedBlank == [ok |-> TRUE, text |-> <<"Answer.">>,
                  groundingChunks |-> <<ChunkEmptyTitle, ChunkEmptyUri>>]
ToolCall == [ok |-> TRUE, functionCall |-> "searchDrive"]
OtherCall == [ok |-> TRUE, text |-> <<"Answer.">>, functionCall |-> "listFiles"]

AllExecResponses ==
    {Rejected, Answer, EmptyAnswer, Grounded, GroundedNoUri, GroundedEmpty,
     GroundedBlank, ToolCall, OtherCall}

\* the responses of a provider that calls only a function the request
\* declares, used where whole conversations are explored
DeclaresSearchDrive(request) ==
    /\ "tools" \in DOMAIN request.config
    /\ request.config.tools = <<"functionDeclarations:searchDrive">>

ExecResponses(request) ==
    {Rejected, Grounded} \cup (IF DeclaresSearchDrive(request) THEN {ToolCall} ELSE {})

FollowUpResponses == {Rejected, Answer}

----------------------------------------------------------------------------
(* GeminiService.analyzeContext *)

FastModel == "gemini-2.5-flash"
ProModel == "gemini-3-pro-preview"

AnalysisRequest(history, lastInput) ==
    [kind |-> "analyze", model |-> FastModel,
     contents |-> [history |-> history, lastInput |-> lastInput],
     config |-> [systemInstruction |-> "SYSTEM_INSTRUCTION_ANALYSIS",
                 responseMimeType |-> "application/json",
                 responseSchema |-> "analysisSchema",
                 temperature |-> "0.3"]]

\* JSON.parse
JsonParse(text) ==
    IF text.json THEN [threw |-> FALSE, value |-> text.value]
    ELSE [threw |-> TRUE, message |-> "Unexpected token"]

\* the promise analyzeContext returns, settled by the provider's response
AnalyzeSettle(resp) ==
    IF ~resp.ok THEN [threw |-> TRUE, message |-> resp.message]
    ELSE IF "text" \notin DOMAIN resp
         THEN [threw |-> TRUE, message |-> "No analysis generated"]
         ELSE JsonParse(resp.text)

----------------------------------------------------------------------------
(* GeminiService.executeSuggestion: the configuration logic *)

ThinkingBudget == 32768
FollowUpThinkingBudget == 16000

IsComplex(suggestion) == suggestion.type \in {"Create", "Challenge", "Crystallize"}
NeedsSearch(suggestion) == suggestion.type \in {"Expand", "Connect"}

\* (mutant) 'Connect' left out of the retrieval list
RouteSearchBuildExpandOnly(suggestion, history, lastInput) ==
    IF IsComplex(suggestion)
    THEN [model |-> ProModel,
          config |-> [temperature |-> "0.7",
                      thinkingConfig |-> [thinkingBudget |-> ThinkingBudget]]]
    ELSE IF suggestion.type = "Expand"
    THEN [model |-> FastModel,
          config |-> [temperature |-> "0.7", tools |-> <<"googleSearch">>]]
    ELSE [model |-> FastModel, config |-> [temperature |-> "0.7"]]

\* googleSearch build
RouteSearchBuild(suggestion, history, lastInput) ==
    IF IsComplex(suggestion)
    THEN [model |-> ProModel,
          config |-> [temperature |-> "0.7",
                      thinkingConfig |-> [thinkingBudget |-> ThinkingBudget]]]
    ELSE IF NeedsSearch(suggestion)
    THEN [model |-> FastModel,
          config |-> [temperature |-> "0.7", tools |-> <<"googleSearch">>]]
    ELSE [model |-> FastModel, config |-> [temperature |-> "0.7"]]

\* (mutant) a reasoning budget that shrinks once there is a history
RouteFunctionBuildByHistory(suggestion, history, lastInput) ==
    IF IsComplex(suggestion)
    THEN [model |-> ProModel,
          config |-> [temperature |-> "0.7",
                      thinkingConfig |->
                          [thinkingBudget |-> IF Len(history) > 0
                                              THEN FollowUpThinkingBudget
                                              ELSE ThinkingBudget]]]
    ELSE IF NeedsSearch(suggestion)
    THEN [model |-> FastModel,
          config |-> [temperature |-> "0.7",
                      tools |-> <<"functionDeclarations:searchDrive">>]]
    ELSE [model |-> FastModel, config |-> [temperature |-> "0.7"]]

\* function-tool build
RouteFunctionBuild(suggestion, history, lastInput) ==
    IF IsComplex(suggestion)
    THEN [model |-> ProModel,
          config |-> [temperature |-> "0.7",
                      thinkingConfig |-> [thinkingBudget |-> ThinkingBudget]]]
    ELSE IF NeedsSearch(suggestion)
    THEN [model |-> FastModel,
          config |-> [temperature |-> "0.7",
                      tools |-> <<"functionDeclarations:searchDrive">>]]
    ELSE [model |-> FastModel, config |-> [temperature |-> "0.7"]]

Route(suggestion, history, lastInput) ==
    IF service = "googleSearch"
    THEN RouteSearchBuild(suggestion, history, lastInput)
    ELSE RouteFunctionBuild(suggestion, history, lastInput)

\* the first generateContent request of an execution
ExecRequest(suggestion, history, lastInput) ==
    LET r == Route(suggestion, history, lastInput)
    IN  [kind |-> "execute", model |-> r.model, config |-> r.config,
         contents |-> [suggestion |-> suggestion, history |-> history,
                       lastInput |-> lastInput]]

\* (mutant) a follow-up that reuses the configuration of the first request
FollowUpRequestKeepsTools(first) ==
    [kind |-> "followUp", model |-> first.model,
     config |-> first.config,
     contents |-> [suggestion |-> first.contents.suggestion,
                   history |-> first.contents.history,
                   lastInput |-> first.contents.lastInput,
                   toolResult |-> <<"Project Alpha Specs.pdf", "Meeting Notes 2024.docx">>]]

\* the request of the function-tool build after a searchDrive call: the task
\* prompt with the mock files appended, no tools
FollowUpRequest(first) ==
    [kind |-> "followUp", model |-> first.model,
     config |-> IF IsComplex(first.contents.suggestion)
                THEN [thinkingConfig |-> [thinkingBudget |-> FollowUpThinkingBudget]]
                ELSE <<>>,   \* thinkingConfig: undefined
     contents |-> [suggestion |-> first.contents.suggestion,
                   history |-> first.contents.history,
                   lastInput |-> first.contents.lastInput,
                   toolResult |-> <<"Project Alpha Specs.pdf", "Meeting Notes 2024.docx">>]]

----------------------------------------------------------------------------
(* GeminiService.executeSuggestion: what the call returns *)

\* (mutant) a catch block that rethrows
ExecuteCatchRethrows == [threw |-> TRUE, message |-> "fetch failed"]

\* the catch block: the fixed result, nothing is rethrown
ExecuteCatch ==
    [threw |-> FALSE,
     value |-> [text |-> <<"Error executing suggestion. Please try again.">>,
                modelUsed |-> "error"]]

\* (mutant) an extraction that keeps the web chunks without a uri
SourceUrlsKeepsAll(chunks) ==
    LET webs == SelectSeq(chunks, LAMBDA c : "web" \in DOMAIN c)
    IN  [i \in 1..Len(webs) |->
            [title |-> OrElse(webs[i].web, "title", <<"Source">>),
             uri |-> OrElse(webs[i].web, "uri", <<>>)]]

\* the grounding extraction of the googleSearch build
RECURSIVE SourceUrls(_)
SourceUrls(chunks) ==
    IF chunks = <<>> THEN <<>>
    ELSE LET chunk == Head(chunks)
             rest  == SourceUrls(Tail(chunks))
         IN  IF "web" \in DOMAIN chunk /\ "uri" \in DOMAIN chunk.web
                /\ chunk.web.uri # <<>>
             THEN <<[title |-> OrElse(chunk.web, "title", <<"Source">>),
                     uri |-> chunk.web.uri]>> \o rest
             ELSE rest

\* googleSearch build: the return after the only generateContent call
ExecuteReturnSearch(model, response) ==
    LET sourceUrls == IF "groundingChunks" \in DOMAIN response
                      THEN SourceUrls(response.groundingChunks) ELSE <<>>
        text == OrElse(response, "text", <<"No response generated.">>)
    IN  [threw |-> FALSE,
         value |-> IF Len(sourceUrls) > 0
                   THEN [text |-> text, modelUsed |-> model, sourceUrls |-> sourceUrls]
                   ELSE [text |-> text, modelUsed |-> model]]

\* function-tool build: the first response calls searchDrive
CallsSearchDrive(response) ==
    "functionCall" \in DOMAIN response /\ response.functionCall = "searchDrive"

\* function-tool build: the return when no follow-up is made
ExecuteReturnFunction(model, response) ==
    [threw |-> FALSE,
     value |-> [text |-> OrElse(response, "text", <<"No response generated.">>),
                modelUsed |-> model]]

\* function-tool build: the return after the follow-up call
ExecuteReturnFollowUp(model, followUpResponse) ==
    [threw |-> FALSE,
     value |-> [text |-> OrElse(followUpResponse, "text",
                                <<"Error processing tool result.">>),
                modelUsed |-> model]]

----------------------------------------------------------------------------
(* App: state updaters *)

\* (mutant) an addLog that replaces the log with the new entries
AddLogsReplaces(prev, base, entries) ==
    [prev EXCEPT !.logs =
        [i \in 1..Len(entries) |->
            LogEntry(base + i, entries[i][1], entries[i][2])]]

\* addLog, called once per element of entries (<<message, type>> pairs); the
\* ids are the next values of crypto.randomUUID()
AddLogs(prev, base, entries) ==
    [prev EXCEPT !.logs =
        @ \o [i \in 1..Len(entries) |->
                LogEntry(base + i, entries[i][1], entries[i][2])]]

\* (mutant) an analysis that starts without clearing the suggestions
AnalyzeStartKeepsSuggestions(prev) == [prev EXCEPT !.isAnalyzing = TRUE]

\* processWithEngine, first updater
AnalyzeStart(prev) == [prev EXCEPT !.isAnalyzing = TRUE, !.currentSuggestions = <<>>]

\* processWithEngine, updater after a successful analysis
AnalyzeDone(prev, analysis) ==
    [prev EXCEPT !.isAnalyzing = FALSE, !.currentSuggestions = analysis.suggestions]

\* (mutant) a catch block that leaves isAnalyzing set
AnalyzeFailedStaysAnalyzing(prev) == prev

\* processWithEngine, updater of the catch block
AnalyzeFailed(prev) == [prev EXCEPT !.isAnalyzing = FALSE]

\* (mutant) a selection that does not clear the suggestions
SelectStartKeepsSuggestions(prev) == [prev EXCEPT !.isExecuting = TRUE]

\* handleSuggestionClick, first updater
SelectStart(prev) == [prev EXCEPT !.isExecuting = TRUE, !.currentSuggestions = <<>>]

\* (mutant) a selection whose finally block does not clear isExecuting
SelectFinallyKeepsExecuting(prev) == prev

\* handleSuggestionClick, updater of the finally block
SelectFinally(prev) == [prev EXCEPT !.isExecuting = FALSE]

\* (mutant) a reply that raises the analysis flag as well
ReplyStartAsAnalyzing(prev) == [prev EXCEPT !.isAnalyzing = TRUE, !.isExecuting = TRUE]

\* handleSendMessage with the engine off, updater before the call
ReplyStart(prev) == [prev EXCEPT !.isExecuting = TRUE]

\* handleSendMessage with the engine off, updater of the finally block
ReplyFinally(prev) == [prev EXCEPT !.isExecuting = FALSE]

(* App: what the rendered controls allow *)

\* (mutant) an input box that stays enabled during analysis
InputDisabledWhileExecutingOnly == engineState.isExecuting

\* <input disabled=...>
InputDisabled == engineState.isExecuting \/ engineState.isAnalyzing

\* <button disabled=...> (send)
SendDisabled ==
    Trim(input) = <<>> \/ engineState.isExecuting \/ engineState.isAnalyzing

\* the engine panel, which holds the suggestion cards, is rendered
PanelShown == engineActive

\* (mutant) suggestion cards that are never disabled
CardNeverDisabled == FALSE

\* <SuggestionCard disabled=...>
CardDisabled == engineState.isExecuting

UserMessages == SelectSeq(messages, LAMBDA m : m.role = "user")

----------------------------------------------------------------------------
(* App: initial state and handlers *)

Init ==
    /\ messages = <<>>
    /\ input = <<>>
    /\ engineActive = TRUE
    /\ engineState = [isActive |-> TRUE, isAnalyzing |-> FALSE,
                      isExecuting |-> FALSE, logs |-> <<>>,
                      currentSuggestions |-> <<>>]
    /\ service \in {"googleSearch", "functionTool"}
    /\ tasks = <<>>
    /\ requests = <<>>
    /\ executions = <<>>
    /\ sets = [produced |-> 0, selected |-> <<>>]
    /\ uuid = 0

\* onChange of the input box
SetInput(text) ==
    /\ ~InputDisabled
    /\ text # input
    /\ input' = text
    /\ UNCHANGED <<messages, engineActive, engineState, service, tasks,
                   requests, executions, sets, uuid>>

\* (mutant) a toggle that drops the suggestions
ToggleEngineClearsSuggestions ==
    /\ engineActive' = ~engineActive
    /\ engineState' = [engineState EXCEPT !.currentSuggestions = <<>>]
    /\ UNCHANGED <<messages, input, service, tasks,
                   requests, executions, sets, uuid>>

\* the engine toggle button
ToggleEngine ==
    /\ engineActive' = ~engineActive
    /\ UNCHANGED <<messages, input, engineState, service, tasks,
                   requests, executions, sets, uuid>>

\* processWithEngine up to its await
ProcessWithEngine(lastUserMessage) ==
    LET request == AnalysisRequest(messages, lastUserMessage.content)
    IN  /\ engineState' =
              AddLogs(AnalyzeStart(engineState), uuid + 1,
                      << << <<"Spore detected. Initiating substrate analysis...">>,
                            "info" >> >>)
        /\ requests' = Append(requests, request)
        /\ tasks' = Append(tasks, [handler |-> "processWithEngine",
                                   await |-> "analyzeContext",
                                   request |-> request])
        /\ uuid' = uuid + 2

\* handleSendMessage with the engine off, up to its await
StandardChatFallback(userMsg) ==
    LET request == ExecRequest(StandardReply, messages, userMsg.content)
    IN  /\ engineState' = ReplyStart(engineState)
        /\ requests' = Append(requests, request)
        /\ tasks' = Append(tasks, [handler |-> "handleSendMessage",
                                   await |-> "generateContent",
                                   suggestion |-> StandardReply,
                                   request |-> request,
                                   received |-> <<>>])
        /\ uuid' = uuid + 1

\* (mutant) a submission that replaces the conversation with the new message
HandleSendMessageResetsConversation ==
    /\ ~InputDisabled \/ ~SendDisabled
    /\ IF Trim(input) = <<>> \/ engineState.isExecuting
       THEN UNCHANGED vars
       ELSE /\ Len(UserMessages) < MaxSubmits
            /\ LET userMsg == [id |-> uuid + 1, role |-> "user", content |-> input]
               IN  /\ messages' = <<userMsg>>
                   /\ input' = <<>>
                   /\ IF engineActive
                      THEN ProcessWithEngine(userMsg)
                      ELSE StandardChatFallback(userMsg)
            /\ UNCHANGED <<engineActive, service, executions, sets>>

\* handleSendMessage, reached by Enter in the input box or by the send button
HandleSendMessage ==
    /\ ~InputDisabled \/ ~SendDisabled
    /\ IF Trim(input) = <<>> \/ engineState.isExecuting
       THEN UNCHANGED vars
       ELSE /\ Len(UserMessages) < MaxSubmits
            /\ LET userMsg == [id |-> uuid + 1, role |-> "user", content |-> input]
               IN  /\ messages' = Append(messages, userMsg)
                   /\ input' = <<>>
                   /\ IF engineActive
                      THEN ProcessWithEngine(userMsg)
                      ELSE StandardChatFallback(userMsg)
            /\ UNCHANGED <<engineActive, service, executions, sets>>

ContinuityChars == 50

\* (mutant) the history depth logged before the patterns
AnalysisLogsDepthFirst(analysis) ==
    << << <<"History Depth: ", analysis.historyDepth>>, "info" >> >>
    \o [i \in 1..Len(analysis.patternsDetected) |->
          << <<"Pattern: ", analysis.patternsDetected[i]>>, "pattern" >>]
    \o << << <<"Continuity: ">>
                \o Substring0(analysis.contextContinuity, ContinuityChars)
                \o <<"...">>, "info" >> >>

\* the addLog calls of processWithEngine between the await and the updater
AnalysisLogs(analysis) ==
    [i \in 1..Len(analysis.patternsDetected) |->
        << <<"Pattern: ", analysis.patternsDetected[i]>>, "pattern" >>]
    \o << << <<"History Depth: ", analysis.historyDepth>>, "info" >>,
          << <<"Continuity: ">>
                \o Substring0(analysis.contextContinuity, ContinuityChars)
                \o <<"...">>, "info" >> >>

\* processWithEngine after its await: analyzeContext has settled
AnalysisSettled(i, response) ==
    /\ i \in 1..Len(tasks)
    /\ tasks[i].await = "analyzeContext"
    /\ LET settled == AnalyzeSettle(response)
       IN  IF settled.threw
           THEN /\ engineState' =
                     AnalyzeFailed(
                       AddLogs(engineState, uuid,
                               << << <<"Analysis failed: ", settled.message>>,
                                     "warning" >> >>))
                /\ uuid' = uuid + 1
                /\ sets' = sets
           ELSE LET analysis == settled.value
                    before == AnalysisLogs(analysis)
                IN  /\ engineState' =
                         AddLogs(
                           AnalyzeDone(AddLogs(engineState, uuid, before), analysis),
                           uuid + Len(before),
                           << << <<"Generated ", ToString(Len(analysis.suggestions)),
                                   " potential growth paths.">>, "success" >> >>)
                    /\ uuid' = uuid + Len(before) + 1
                    /\ sets' = [sets EXCEPT !.produced = @ + 1]
    /\ tasks' = RemoveAt(tasks, i)
    /\ UNCHANGED <<messages, input, engineActive, service, requests, executions>>

\* handleSuggestionClick up to its await
HandleSuggestionClick(k) ==
    /\ PanelShown
    /\ ~CardDisabled
    /\ k \in 1..Len(engineState.currentSuggestions)
    /\ LET suggestion == engineState.currentSuggestions[k]
           started ==
               AddLogs(SelectStart(engineState), uuid,
                       << << <<"Selected path: ", suggestion.type, " - ",
                               suggestion.title>>, "success" >>,
                          << <<"Weaving response...">>, "info" >> >>)
       IN  IF messages = <<>>
           THEN \* lastMsg is undefined: the TypeError goes to the catch block
                /\ engineState' =
                     SelectFinally(
                       AddLogs(started, uuid + 2,
                               << << <<"Execution failed.">>, "warning" >> >>))
                /\ uuid' = uuid + 3
                /\ UNCHANGED <<tasks, requests>>
           ELSE LET lastMsg == Last(messages)
                    history == SliceButLast(messages)
                    request == ExecRequest(suggestion, history, lastMsg.content)
                IN  /\ engineState' = started
                    /\ uuid' = uuid + 2
                    /\ requests' = Append(requests, request)
                    /\ tasks' = Append(tasks, [handler |-> "handleSuggestionClick",
                                               await |-> "generateContent",
                                               suggestion |-> suggestion,
                                               request |-> request,
                                               received |-> <<>>])
    /\ sets' = [sets EXCEPT !.selected = Append(@, sets.produced)]
    /\ UNCHANGED <<messages, input, engineActive, service, executions>>

\* the handler that awaited executeSuggestion resumes with its outcome
Resume(i, received, outcome) ==
    LET task == tasks[i]
        result == outcome.value
        metadata ==
            IF task.handler = "handleSuggestionClick"
            THEN IF "sourceUrls" \in DOMAIN result
                 THEN [suggestionType |-> task.suggestion.type,
                       modelUsed |-> result.modelUsed,
                       sourceUrls |-> result.sourceUrls]
                 ELSE [suggestionType |-> task.suggestion.type,
                       modelUsed |-> result.modelUsed]
            ELSE IF "sourceUrls" \in DOMAIN result
                 THEN [modelUsed |-> result.modelUsed,
                       sourceUrls |-> result.sourceUrls]
                 ELSE [modelUsed |-> result.modelUsed]
        modelMsg == [id |-> uuid + 1, role |-> "model",
                     content |-> result.text, metadata |-> metadata]
    IN  /\ executions' = Append(executions, [suggestion |-> task.suggestion,
                                             handler |-> task.handler,
                                             received |-> received,
                                             outcome |-> outcome])
        /\ tasks' = RemoveAt(tasks, i)
        /\ IF task.handler = "handleSuggestionClick"
           THEN IF outcome.threw
                THEN /\ engineState' =
                          SelectFinally(
                            AddLogs(engineState, uuid,
                                    << << <<"Execution failed.">>, "warning" >> >>))
                     /\ uuid' = uuid + 1
                     /\ UNCHANGED messages
                ELSE /\ messages' = Append(messages, modelMsg)
                     /\ engineState' =
                          SelectFinally(
                            AddLogs(engineState, uuid + 1,
                                    << << <<"Execution complete.">>, "success" >> >>))
                     /\ uuid' = uuid + 2
           ELSE IF outcome.threw
                THEN /\ engineState' = ReplyFinally(engineState)
                     /\ UNCHANGED <<messages, uuid>>
                ELSE /\ messages' = Append(messages, modelMsg)
                     /\ engineState' = ReplyFinally(engineState)
                     /\ uuid' = uuid + 1
        /\ UNCHANGED <<input, engineActive, service, requests, sets>>

\* executeSuggestion after its first await
ExecuteResponded(i, response) ==
    /\ i \in 1..Len(tasks)
    /\ tasks[i].await = "generateContent"
    /\ LET task == tasks[i]
           received == Append(task.received, response)
       IN  IF ~response.ok
           THEN Resume(i, received, ExecuteCatch)
           ELSE IF service = "googleSearch"
           THEN Resume(i, received, ExecuteReturnSearch(task.request.model, response))
           ELSE IF CallsSearchDrive(response)
           THEN /\ requests' = Append(requests, FollowUpRequest(task.request))
                /\ tasks' = [tasks EXCEPT ![i].await = "followUp",
                                          ![i].received = received]
                /\ UNCHANGED <<messages, input, engineActive, engineState,
                               service, executions, sets, uuid>>
           ELSE Resume(i, received, ExecuteReturnFunction(task.request.model, response))

\* (mutant) a follow-up that is sent again when it fails
FollowUpRespondedRetries(i, response) ==
    /\ i \in 1..Len(tasks)
    /\ tasks[i].await = "followUp"
    /\ LET task == tasks[i]
           received == Append(task.received, response)
       IN  IF ~response.ok /\ Len(task.received) < 2
           THEN /\ requests' = Append(requests, FollowUpRequest(task.request))
                /\ tasks' = [tasks EXCEPT ![i].received = received]
                /\ UNCHANGED <<messages, input, engineActive, engineState,
                               service, executions, sets, uuid>>
           ELSE IF ~response.ok
           THEN Resume(i, received, ExecuteCatch)
           ELSE Resume(i, received, ExecuteReturnFollowUp(task.request.model, response))

\* executeSuggestion (function-tool build) after its second await
FollowUpResponded(i, response) ==
    /\ i \in 1..Len(tasks)
    /\ tasks[i].await = "followUp"
    /\ LET task == tasks[i]
           received == Append(task.received, response)
       IN  IF ~response.ok
           THEN Resume(i, received, ExecuteCatch)
           ELSE Resume(i, received, ExecuteReturnFollowUp(task.request.model, response))

----------------------------------------------------------------------------
(* Specifications *)

UserStep ==
    \/ \E text \in InputTexts : SetInput(text)
    \/ ToggleEngine
    \/ HandleSendMessage
    \/ \E k \in 1..Len(engineState.currentSuggestions) : HandleSuggestionClick(k)

ProviderStep ==
    \/ \E i \in 1..Len(tasks), response \in AnalysisResponses : AnalysisSettled(i, response)
    \/ \E i \in 1..Len(tasks) : \E response \in ExecResponses(tasks[i].request) :
          ExecuteResponded(i, response)
    \/ \E i \in 1..Len(tasks), response \in FollowUpResponses : FollowUpResponded(i, response)

Next == UserStep \/ ProviderStep

\* conversations of up to MaxSubmits submissions
Spec == Init /\ [][Next]_vars

\* every provider call answers or fails
LiveSpec == Spec /\ WF_vars(ProviderStep)

\* one submission, every kind of provider response
ServiceNext ==
    \/ \E text \in InputTexts : SetInput(text)
    \/ ToggleEngine
    \/ HandleSendMessage /\ messages = <<>>
    \/ \E k \in 1..Len(engineState.currentSuggestions) : HandleSuggestionClick(k)
    \/ \E i \in 1..Len(tasks), response \in AnalysisResponses : AnalysisSettled(i, response)
    \/ \E i \in 1..Len(tasks), response \in AllExecResponses : ExecuteResponded(i, response)
    \/ \E i \in 1..Len(tasks), response \in AllExecResponses : FollowUpResponded(i, response)

ServiceSpec == Init /\ [][ServiceNext]_vars

----------------------------------------------------------------------------
(* Properties *)

Idle == ~engineState.isAnalyzing /\ ~engineState.isExecuting

\* the executeSuggestion calls that have not settled
ExecutionsInFlight ==
    {i \in 1..Len(tasks) : tasks[i].await \in {"generateContent", "followUp"}}

\* the executions started so far (first requests of executeSuggestion)
ExecutionsStarted == SelectSeq(requests, LAMBDA r : r.kind = "execute")

\* C1: isAnalyzing and isExecuting are never both true, whatever the order of
\* submissions, selections, toggles and provider responses.
PhasesExclusive == ~(engineState.isAnalyzing /\ engineState.isExecuting)

\* an execution is running after an analysis has taken place
PhasesExclusiveWitness ==
    /\ engineState.isExecuting
    /\ ExecutionsInFlight # {}
    /\ \E i \in 1..Len(requests) : requests[i].kind = "analyze"

\* C2: at most one executeSuggestion call is in flight, and no execution is
\* started (by a selection or by the engine-off reply) while isExecuting.
OneExecutionAtATime ==
    /\ [](Cardinality(ExecutionsInFlight) <= 1)
    /\ [][engineState.isExecuting => ExecutionsStarted' = ExecutionsStarted]_vars

\* an execution is in flight while the panel shows suggestion cards
OneExecutionAtATimeWitness ==
    /\ engineState.isExecuting
    /\ Cardinality(ExecutionsInFlight) = 1
    /\ PanelShown
    /\ engineState.currentSuggestions # <<>>

\* C3: whenever isExecuting is true, currentSuggestions is empty.
ExecutingHoldsNoSuggestions ==
    engineState.isExecuting => engineState.currentSuggestions = <<>>

\* C4: the step that selects a suggestion leaves isExecuting true and
\* currentSuggestions empty, with the executor's call still pending.
SelectionClearsAtOnce ==
    [][sets'.selected # sets.selected =>
          /\ engineState'.isExecuting
          /\ engineState'.currentSuggestions = <<>>
          /\ \E i \in 1..Len(tasks') :
                /\ tasks'[i].handler = "handleSuggestionClick"
                /\ tasks'[i].await = "generateContent"]_vars

\* the state right after a selection
SelectionClearsAtOnceWitness ==
    /\ sets.selected # <<>>
    /\ engineState.isExecuting
    /\ engineState.currentSuggestions = <<>>
    /\ Last(engineState.logs).message = <<"Weaving response...">>
    /\ \E i \in 1..Len(tasks) :
          /\ tasks[i].handler = "handleSuggestionClick"
          /\ tasks[i].await = "generateContent"
          /\ tasks[i].received = <<>>

\* C5: no suggestion set is selected from twice.
OneSelectionPerSet ==
    \A i, j \in 1..Len(sets.selected) :
        i # j => sets.selected[i] # sets.selected[j]

\* the execution of a selection is over, the panel is shown, and no newer
\* set has replaced the one selected from
OneSelectionPerSetWitness ==
    /\ sets.selected # <<>>
    /\ Last(sets.selected) = sets.produced
    /\ Idle
    /\ PanelShown
    /\ Len(UserMessages) < MaxSubmits

\* C6: while isAnalyzing is true, currentSuggestions is empty.
AnalyzingHoldsNoSuggestions ==
    engineState.isAnalyzing => engineState.currentSuggestions = <<>>

\* an analysis is running after an earlier one surfaced suggestions that
\* were never selected
AnalyzingHoldsNoSuggestionsWitness ==
    /\ engineState.isAnalyzing
    /\ sets.produced >= 1
    /\ sets.selected = <<>>

\* C7: once the provider answers or fails, the engine is idle again.
ReturnsToIdle == ~Idle ~> Idle

\* idle again after a failed analysis and a failed execution
ReturnsToIdleWitness ==
    /\ Idle
    /\ \E i \in 1..Len(engineState.logs) : engineState.logs[i].type = "warning"
    /\ \E i \in 1..Len(executions) : executions[i].outcome = ExecuteCatch

\* C8: executeSuggestion never raises; its result has a non-empty text and
\* a modelUsed value; when a provider call failed, the result is the fixed
\* error text with modelUsed = "error".
ExecutionAlwaysReturns ==
    \A i \in 1..Len(executions) :
        LET e == executions[i]
        IN  /\ ~e.outcome.threw
            /\ {"text", "modelUsed"} \subseteq DOMAIN e.outcome.value
            /\ e.outcome.value.text # <<>>
            /\ e.outcome.value.modelUsed \in {FastModel, ProModel, "error"}
            /\ (\E n \in 1..Len(e.received) : ~e.received[n].ok) =>
                   e.outcome.value =
                       [text |-> <<"Error executing suggestion. Please try again.">>,
                        modelUsed |-> "error"]

\* an execution whose follow-up call failed has settled
ExecutionAlwaysReturnsWitness ==
    \E i \in 1..Len(executions) :
        /\ Len(executions[i].received) = 2
        /\ ~executions[i].received[2].ok

\* the routing table of the specification, row by row
FollowsRoutingTable(request) ==
    LET type == request.contents.suggestion.type
        config == request.config
    IN  IF type \in {"Create", "Challenge", "Crystallize"}
        THEN /\ request.model = ProModel
             /\ "thinkingConfig" \in DOMAIN config
             /\ config.thinkingConfig.thinkingBudget > 0
             /\ "tools" \notin DOMAIN config
        ELSE IF type \in {"Expand", "Connect"}
        THEN /\ request.model = FastModel
             /\ "tools" \in DOMAIN config
             /\ config.tools # <<>>
             /\ "thinkingConfig" \notin DOMAIN config
        ELSE /\ request.model = FastModel
             /\ "tools" \notin DOMAIN config
             /\ "thinkingConfig" \notin DOMAIN config

RoutingIgnoresState ==
    \A i, j \in 1..Len(ExecutionsStarted) :
        LET a == ExecutionsStarted[i]
            b == ExecutionsStarted[j]
        IN  a.contents.suggestion.type = b.contents.suggestion.type =>
                a.model = b.model /\ a.config = b.config

\* two executions of one type with histories of different lengths
RoutingIgnoresStateWitness ==
    \E i, j \in 1..Len(ExecutionsStarted) :
        LET a == ExecutionsStarted[i]
            b == ExecutionsStarted[j]
        IN  /\ a.contents.suggestion.type = b.contents.suggestion.type
            /\ a.contents.suggestion.type = "Create"
            /\ Len(a.contents.history) # Len(b.contents.history)

\* the executeSuggestion calls that have settled with a first response that
\* carries a function call
ToolHops ==
    {i \in 1..Len(executions) :
        /\ executions[i].received[1].ok
        /\ "functionCall" \in DOMAIN executions[i].received[1]}

\* the requests that ask the provider to continue after a tool result
FollowUpsIssued == SelectSeq(requests, LAMBDA r : r.kind = "followUp")

\* the executeSuggestion calls that wait for the answer to a follow-up
FollowUpsInFlight == {i \in 1..Len(tasks) : tasks[i].await = "followUp"}

\* C11: the suggestions surfaced by a successful analysis number exactly five
\* and their types are pairwise distinct members of the six-value set.
SurfacedFiveDistinct ==
    LET surfaced == engineState.currentSuggestions
    IN  surfaced # <<>> =>
            /\ Len(surfaced) = 5
            /\ \A i \in 1..Len(surfaced) : surfaced[i].type \in SuggestionTypes
            /\ \A i, j \in 1..Len(surfaced) :
                  i # j => surfaced[i].type # surfaced[j].type

FailedFollowUpEndsExecution ==
    /\ [](\A i \in 1..Len(executions) :
            LET e == executions[i]
            IN  Len(e.received) = 2 /\ ~e.received[2].ok =>
                    /\ ~e.outcome.threw
                    /\ e.outcome.value =
                          [text |-> <<"Error executing suggestion. Please try again.">>,
                           modelUsed |-> "error"])
    /\ [][FollowUpsInFlight # {} /\ tasks' # tasks =>
              /\ requests' = requests
              /\ FollowUpsInFlight' = {}
              /\ Len(executions') = Len(executions) + 1
              /\ Len(Last(executions').received) = 2]_vars

\* a follow-up has failed, the model message with the failure text is in the
\* conversation and nothing is pending
FailedFollowUpEndsExecutionWitness ==
    /\ tasks = <<>>
    /\ Idle
    /\ executions # <<>>
    /\ Len(Last(executions).received) = 2
    /\ ~Last(executions).received[2].ok
    /\ Last(messages).role = "model"
    /\ Last(messages).metadata.modelUsed = "error"
    /\ Last(requests).kind = "followUp"

\* the analyzeContext calls that have not settled
AnalysesInFlight == {i \in 1..Len(tasks) : tasks[i].await = "analyzeContext"}

\* the executeSuggestion calls made by handleSendMessage that have not settled
RepliesInFlight == {i \in 1..Len(tasks) : tasks[i].handler = "handleSendMessage"}

\* the executeSuggestion calls made by handleSuggestionClick that have not
\* settled
SelectionsInFlight ==
    {i \in 1..Len(tasks) : tasks[i].handler = "handleSuggestionClick"}

IsPrefix(s, t) == Len(s) <= Len(t) /\ SubSeq(t, 1, Len(s)) = s

Phase == <<engineState.isAnalyzing, engineState.isExecuting>>

\* C14: the step in which an analysis fails leaves isAnalyzing false and
\* currentSuggestions empty, appends one warning entry to the log, leaves the
\* conversation alone and issues no request; a submission made after the
\* failure, engine on, starts a new analysis.
FailedAnalysisLeavesIdle ==
    /\ [][AnalysesInFlight # {} /\ tasks' # tasks /\ sets'.produced = sets.produced =>
              /\ ~engineState'.isAnalyzing
              /\ ~engineState'.isExecuting
              /\ engineState'.currentSuggestions = <<>>
              /\ Len(engineState'.logs) = Len(engineState.logs) + 1
              /\ IsPrefix(engineState.logs, engineState'.logs)
              /\ Last(engineState'.logs).type = "warning"
              /\ Head(Last(engineState'.logs).message) = "Analysis failed: "
              /\ messages' = messages
              /\ requests' = requests
              /\ tasks' = <<>>]_vars
    /\ [][/\ Idle
          /\ engineState.logs # <<>>
          /\ Head(Last(engineState.logs).message) = "Analysis failed: "
          /\ engineActive
          /\ messages' # messages
          => /\ engineState'.isAnalyzing
             /\ AnalysesInFlight' # {}
             /\ requests' = Append(requests, Last(requests'))
             /\ Last(requests').kind = "analyze"
             /\ Last(requests').contents.lastInput = Last(messages').content]_vars

\* an analysis failed on an unparsable payload and the next submission is
\* being analyzed
FailedAnalysisLeavesIdleWitness ==
    /\ engineState.isAnalyzing
    /\ AnalysesInFlight # {}
    /\ Len(SelectSeq(requests, LAMBDA r : r.kind = "analyze")) = 2
    /\ Len(engineState.logs) = 3
    /\ engineState.logs[2].type = "warning"
    /\ engineState.logs[2].message = <<"Analysis failed: ", "Unexpected token">>
    /\ Len(messages) = 2

\* C15: with the engine off, the step that accepts a submission calls the
\* executor with the standard-reply suggestion, enters no Analyzing phase and
\* issues no analysis request; the step that ends this call, the provider
\* having answered or failed, appends one model message after the user's.
EngineOffRepliesDirectly ==
    /\ [][~engineActive /\ messages' # messages /\ Last(messages').role = "user" =>
              /\ ~engineState'.isAnalyzing
              /\ engineState'.isExecuting
              /\ AnalysesInFlight' = {}
              /\ RepliesInFlight' # {}
              /\ requests' = Append(requests, Last(requests'))
              /\ Last(requests').kind = "execute"
              /\ Last(requests').contents.suggestion.id = "std"
              /\ Last(requests').contents.suggestion.title = "Reply"
              /\ Last(requests').contents.suggestion.description = "Standard reply"
              /\ Last(requests').contents.lastInput = Last(messages').content]_vars
    /\ [][RepliesInFlight # {} /\ RepliesInFlight' = {} =>
              /\ Last(messages).role = "user"
              /\ messages' = Append(messages, Last(messages'))
              /\ Last(messages').role = "model"
              /\ Last(messages').content = Last(executions').outcome.value.text
              /\ "suggestionType" \notin DOMAIN Last(messages').metadata]_vars
    /\ [](RepliesInFlight # {} =>
              /\ messages # <<>>
              /\ Last(messages).role = "user"
              /\ ~engineState.isAnalyzing)

\* the engine is off, one submission was made and the provider failed: the
\* conversation is the user message followed by one model message
EngineOffRepliesDirectlyWitness ==
    /\ ~engineActive
    /\ Idle
    /\ tasks = <<>>
    /\ Len(messages) = 2
    /\ messages[1].role = "user"
    /\ messages[2].role = "model"
    /\ messages[2].metadata.modelUsed = "error"
    /\ \A k \in 1..Len(requests) : requests[k].kind # "analyze"
    /\ engineState.logs = <<>>

\* C16: every step that changes the phase appends at least one log entry.
EveryPhaseChangeLogged ==
    [][Phase' # Phase => Len(engineState'.logs) > Len(engineState.logs)]_vars

\* C16 (amended): every step that changes the phase appends at least one log
\* entry, except the two steps of the engine-off reply, which set and clear
\* isExecuting and leave the log as it is.
PhaseChangeLoggedUnlessReply ==
    [][Phase' # Phase =>
          IF RepliesInFlight # {} \/ RepliesInFlight' # {}
          THEN engineState'.logs = engineState.logs
          ELSE /\ Len(engineState'.logs) > Len(engineState.logs)
               /\ IsPrefix(engineState.logs, engineState'.logs)]_vars

\* a selection was executed with the engine on, then a reply was made with
\* the engine off: the log still ends with the entry of the selection
PhaseChangeLoggedUnlessReplyWitness ==
    /\ Idle
    /\ tasks = <<>>
    /\ Len(executions) = 2
    /\ executions[1].handler = "handleSuggestionClick"
    /\ executions[2].handler = "handleSendMessage"
    /\ Last(engineState.logs).message = <<"Execution complete.">>
    /\ Last(messages).role = "model"

\* C17: the step that ends the execution of a selected suggestion after the
\* provider failed appends a model message with the failure result and
\* leaves the engine Idle.
FailedSelectionStillAnswers ==
    [][/\ SelectionsInFlight # {}
       /\ SelectionsInFlight' = {}
       /\ \E k \in 1..Len(Last(executions').received) :
             ~Last(executions').received[k].ok
       => /\ messages' = Append(messages, Last(messages'))
          /\ Last(messages').role = "model"
          /\ Last(messages').content =
                <<"Error executing suggestion. Please try again.">>
          /\ Last(messages').metadata.modelUsed = "error"
          /\ Last(messages').metadata.suggestionType =
                Last(executions').suggestion.type
          /\ ~engineState'.isAnalyzing
          /\ ~engineState'.isExecuting
          /\ tasks' = <<>>]_vars

\* a selection failed at the provider: the failure text is the last message
\* and the engine is Idle
FailedSelectionStillAnswersWitness ==
    /\ Idle
    /\ tasks = <<>>
    /\ executions # <<>>
    /\ Last(executions).handler = "handleSuggestionClick"
    /\ ~Last(executions).received[1].ok
    /\ Last(messages).role = "model"
    /\ Last(messages).content = <<"Error executing suggestion. Please try again.">>
    /\ "suggestionType" \in DOMAIN Last(messages).metadata

\* the log entries a step has appended
Added == SubSeq(engineState'.logs, Len(engineState.logs) + 1, Len(engineState'.logs))

\* C18: every step leaves the log it found as a prefix of the log it leaves,
\* and a successful analysis appends, after its start notice, one pattern
\* entry per detected pattern in the analyzer's order, then the history
\* depth, the continuity and the generated count.
LogAppendOnlyInOrder ==
    /\ [][IsPrefix(engineState.logs, engineState'.logs)]_vars
    /\ [][AnalysesInFlight # {} /\ sets'.produced # sets.produced =>
              /\ Last(engineState.logs).message =
                    <<"Spore detected. Initiating substrate analysis...">>
              /\ \E p \in AnalysisPayloads :
                    LET n == Len(p.patternsDetected)
                    IN  /\ engineState'.currentSuggestions = p.suggestions
                        /\ Len(Added) = n + 3
                        /\ \A i \in 1..n :
                              /\ Added[i].message = <<"Pattern: ", p.patternsDetected[i]>>
                              /\ Added[i].type = "pattern"
                        /\ Added[n + 1].message = <<"History Depth: ", p.historyDepth>>
                        /\ Head(Added[n + 2].message) = "Continuity: "
                        /\ Head(Added[n + 3].message) = "Generated "
                        /\ Added[n + 3].type = "success"]_vars

\* the log of one successful analysis that detected two patterns
LogAppendOnlyInOrderWitness ==
    /\ Idle
    /\ Len(engineState.logs) = 6
    /\ engineState.logs[1].message = <<"Spore detected. Initiating substrate analysis...">>
    /\ engineState.logs[2].message = <<"Pattern: ", "Question">>
    /\ engineState.logs[3].message = <<"Pattern: ", "Imperative">>
    /\ Head(engineState.logs[4].message) = "History Depth: "
    /\ Head(engineState.logs[5].message) = "Continuity: "
    /\ Head(engineState.logs[6].message) = "Generated "

\* a step has issued the request an accepted submission issues: an analysis,
\* or the execution of the standard reply
SubmissionAccepted ==
    /\ Len(requests') = Len(requests) + 1
    /\ \/ Last(requests').kind = "analyze"
       \/ /\ Last(requests').kind = "execute"
          /\ "id" \in DOMAIN Last(requests').contents.suggestion

\* C19: every step leaves the conversation it found as a prefix of the
\* conversation it leaves, and an accepted submission appends one user
\* message, the text submitted.
ConversationAppendOnly ==
    /\ [][IsPrefix(messages, messages')]_vars
    /\ [][SubmissionAccepted =>
              /\ messages' = Append(messages, Last(messages'))
              /\ Last(messages').role = "user"
              /\ Last(messages').content = input]_vars
    /\ [][Len(messages') > Len(messages) /\ Last(messages').role = "user" =>
              SubmissionAccepted]_vars

\* two submissions and their two answers
ConversationAppendOnlyWitness ==
    /\ Len(messages) = 4
    /\ messages[1].role = "user"
    /\ messages[2].role = "model"
    /\ messages[3].role = "user"
    /\ messages[4].role = "model"
    /\ Len(UserMessages) = 2

\* C20: no step taken while an analysis is under way changes the
\* conversation.
AnalysisLeavesConversation ==
    [][engineState.isAnalyzing \/ AnalysesInFlight # {} => messages' = messages]_vars

\* an analysis has completed on a conversation of three messages, the last
\* of them the user's
AnalysisLeavesConversationWitness ==
    /\ Idle
    /\ tasks = <<>>
    /\ sets.produced >= 1
    /\ engineState.currentSuggestions # <<>>
    /\ Len(messages) = 3
    /\ Last(messages).role = "user"
    /\ Last(requests).kind = "analyze"
    /\ Last(requests).contents.history = SliceButLast(messages)

\* C21: engineState.isActive equals the on/off setting of the engine.
IsActiveReflectsToggle == engineState.isActive = engineActive

\* chunk c has a uri
HasUri(c) == "web" \in DOMAIN c /\ "uri" \in DOMAIN c.web /\ c.web.uri # <<>>

\* the citation the extraction is to return for a chunk that has a uri
CitationOf(c) ==
    [title |-> IF "title" \in DOMAIN c.web /\ c.web.title # <<>>
               THEN c.web.title ELSE <<"Source">>,
     uri |-> c.web.uri]

\* the executions the googleSearch build has answered from a response
Extractions ==
    {i \in 1..Len(executions) :
        service = "googleSearch" /\ executions[i].received[1].ok}

\* C22: the citations returned with a response are the chunks that have a
\* uri, in their order, each with the chunk's title or the placeholder; when
\* no chunk has a uri, or there is no chunk, the result has no citations
\* field.
CitationsAreChunksWithUri ==
    \A i \in Extractions :
        LET response == executions[i].received[1]
            result == executions[i].outcome.value
            chunks == IF "groundingChunks" \in DOMAIN response
                      THEN response.groundingChunks ELSE <<>>
            kept == SelectSeq(chunks, HasUri)
        IN  IF kept = <<>>
            THEN "sourceUrls" \notin DOMAIN result
            ELSE /\ "sourceUrls" \in DOMAIN result
                 /\ result.sourceUrls = [k \in 1..Len(kept) |-> CitationOf(kept[k])]

\* of four chunks, the two with a uri were returned in their order, and the
\* one without a title got the placeholder
CitationsAreChunksWithUriWitness ==
    \E i \in Extractions :
        /\ executions[i].received[1] = Grounded
        /\ executions[i].outcome.value.sourceUrls =
              << [title |-> <<"T1">>, uri |-> <<"u1">>],
                 [title |-> <<"Source">>, uri |-> <<"u2">>] >>
        /\ Last(messages).metadata.sourceUrls = executions[i].outcome.value.sourceUrls

\* the requests that execute a selected suggestion
IsSelectionRequest(r) == r.kind = "execute" /\ "id" \notin DOMAIN r.contents.suggestion

\* the position in requests of the last analysis request before position k,
\* 0 when there is none
RECURSIVE LastAnalysisBefore(_)
LastAnalysisBefore(k) ==
    IF k <= 1 THEN 0
    ELSE IF requests[k - 1].kind = "analyze" THEN k - 1
    ELSE LastAnalysisBefore(k - 1)

\* C23: every execution of a selected suggestion was given the input and the
\* history of the analysis that produced the suggestion: its lastInput is the
\* user message analysed and its history the messages before that message.
SelectionRunsOnItsInput ==
    \A k \in 1..Len(requests) :
        IsSelectionRequest(requests[k]) =>
            LET a == LastAnalysisBefore(k)
            IN  /\ a > 0
                /\ requests[k].contents.lastInput = requests[a].contents.lastInput
                /\ requests[k].contents.history = requests[a].contents.history

\* C24: the log never holds the entry 'Execution failed.', and the step that
\* ends a selection the provider failed appends 'Execution complete.'.
FailedSelectionLoggedComplete ==
    /\ [](\A k \in 1..Len(engineState.logs) :
              engineState.logs[k].message # <<"Execution failed.">>)
    /\ [](engineState.currentSuggestions # <<>> => messages # <<>>)
    /\ [](\A i \in 1..Len(executions) : ~executions[i].outcome.threw)
    /\ [][/\ SelectionsInFlight # {}
          /\ SelectionsInFlight' = {}
          /\ \E k \in 1..Len(Last(executions').received) :
                ~Last(executions').received[k].ok
          => /\ Len(engineState'.logs) = Len(engineState.logs) + 1
             /\ Last(engineState'.logs).message = <<"Execution complete.">>
             /\ Last(engineState'.logs).type = "success"]_vars

\* the provider failed a selection and the log ends with the success entry
FailedSelectionLoggedCompleteWitness ==
    /\ executions # <<>>
    /\ Last(executions).handler = "handleSuggestionClick"
    /\ \E k \in 1..Len(Last(executions).received) : ~Last(executions).received[k].ok
    /\ Last(executions).outcome.value.modelUsed = "error"
    /\ engineState.logs # <<>>
    /\ Last(engineState.logs).message = <<"Execution complete.">>
    /\ Last(engineState.logs).type = "success"

\* a text that is empty or made of spaces only
Blank(s) == \A k \in 1..Len(s) : s[k] = " "

ToggleChangesOnlySetting ==
    /\ [](ENABLED ToggleEngine)
    /\ [][engineActive' # engineActive =>
              /\ engineState'.isAnalyzing = engineState.isAnalyzing
              /\ engineState'.isExecuting = engineState.isExecuting
              /\ engineState'.currentSuggestions = engineState.currentSuggestions
              /\ engineState'.logs = engineState.logs
              /\ messages' = messages
              /\ input' = input
              /\ tasks' = tasks
              /\ requests' = requests]_vars

\* the suggestions of an analysis are shown again after the engine was
\* turned off, a reply was made with the engine off, and the engine was
\* turned on
ToggleChangesOnlySettingWitness ==
    /\ engineActive
    /\ Idle
    /\ engineState.currentSuggestions # <<>>
    /\ executions # <<>>
    /\ Last(executions).handler = "handleSendMessage"
    /\ Last(messages).role = "model"

\* C27: every execution of the standard reply is of type Expand and is
\* requested from the fast model with tools and no reasoning budget; the
\* message it appends carries the result's modelUsed and citations and no
\* suggestion type.
StandardReplyIsExpand ==
    /\ [](\A k \in 1..Len(requests) :
              requests[k].kind = "execute" /\ "id" \in DOMAIN requests[k].contents.suggestion =>
                  /\ requests[k].contents.suggestion.type = "Expand"
                  /\ requests[k].model = "gemini-2.5-flash"
                  /\ "tools" \in DOMAIN requests[k].config
                  /\ requests[k].config.tools # <<>>
                  /\ "thinkingConfig" \notin DOMAIN requests[k].config)
    /\ [][RepliesInFlight # {} /\ RepliesInFlight' = {} /\ messages' # messages =>
              LET metadata == Last(messages').metadata
                  result == Last(executions').outcome.value
              IN  /\ "modelUsed" \in DOMAIN metadata
                  /\ metadata.modelUsed = result.modelUsed
                  /\ "suggestionType" \notin DOMAIN metadata
                  /\ "sourceUrls" \in DOMAIN metadata <=> "sourceUrls" \in DOMAIN result
                  /\ "sourceUrls" \in DOMAIN result =>
                        metadata.sourceUrls = result.sourceUrls]_vars

\* an engine-off reply was answered with grounding chunks: its message
\* carries the model and the citations and no suggestion type
StandardReplyIsExpandWitness ==
    /\ executions # <<>>
    /\ Last(executions).handler = "handleSendMessage"
    /\ Last(executions).suggestion.type = "Expand"
    /\ Last(messages).role = "model"
    /\ Last(messages).metadata.modelUsed = "gemini-2.5-flash"
    /\ "sourceUrls" \in DOMAIN Last(messages).metadata
    /\ Len(Last(messages).metadata.sourceUrls) = 2
    /\ "suggestionType" \notin DOMAIN Last(messages).metadata

====
